---------------------------- MODULE Spec2Model ----------------------------
(***************************************************************************)
(* A model of the path tracer: the parallel row driver (parallel_for and   *)
(* the per-thread random engine of library.cpp, the render loop of main),  *)
(* the intersection engine (Scene::intersect and the three primitive       *)
(* tests), the path integrators of main.cpp and reference.cpp, and the     *)
(* pixel sampler.                                                          *)
(***************************************************************************)
EXTENDS Integers, Sequences, FiniteSets, TLC

(***************************************************************************)
(* Bounds of the model.                                                    *)
(***************************************************************************)
\* rows of the image (main.cpp:6 has 540)
ImageHeight == 3
\* columns of the image (main.cpp:5 has 960)
ImageWidth == 2
\* largest value std::thread::hardware_concurrency() reports
MaxHardware == 3
\* width in bits of the claim counter (uint32_t in library.cpp:228)
CounterBits == 4

\* most primitives inserted into a scene
MaxPrimitives == 3
\* ray origins have z in -MaxOrigin .. MaxOrigin (whole units), x = y = 0
MaxOrigin == 1
\* ray directions have z in -MaxDirection .. MaxDirection, x and y in -1 .. 1
MaxDirection == 2

\* nested calls after which the model stops following main.cpp's evaluate,
\* which takes no depth
CallCap == 130
\* bounces of reference.cpp's evaluate that are chosen freely; later bounces
\* repeat the last free one
FreeBounces == 1
\* samples of one pixel (64 in main.cpp:7, 640 in reference.cpp:10)
SamplesPerPixel == 3
\* parallel_for is called with bounds within MaxArg of 0 or of the greatest
\* uint32_t, at most MaxArg apart
MaxArg == 2

Modulus == 2 ^ CounterBits

Min2(a, b) == IF a < b THEN a ELSE b
Max2(a, b) == IF a < b THEN b ELSE a

\* an empty std::unique_ptr; a non-empty one is a one-element sequence
Null == <<>>

(***************************************************************************)
(* float (library.hpp): a value is a whole number of grid steps, Unit      *)
(* steps to 1.0f, or one of Infinity, -Infinity, NaN.  Products, quotients *)
(* and roots are rounded to the grid (towards zero); the special values    *)
(* follow IEEE 754.  There is one zero (no negative zero).                 *)
(***************************************************************************)
\* grid steps per 1.0f
Unit == 100

\* library.hpp:13
Infinity == 1000000
NaN == Infinity + 1

IsNaN(a) == a = NaN
IsInf(a) == a = Infinity \/ a = -Infinity
\* std::isfinite
IsFinite(a) == -Infinity < a /\ a < Infinity
Sgn(a) == IF a < 0 THEN -1 ELSE IF a > 0 THEN 1 ELSE 0
Abs(a) == IF a < 0 THEN -a ELSE a
\* a finite result beyond the largest float becomes an infinity
Fit(n) == IF n >= Infinity THEN Infinity ELSE IF n <= -Infinity THEN -Infinity ELSE n

\* the float literal n.0f
F(n) == n * Unit

FNeg(a) == IF IsNaN(a) THEN NaN ELSE -a
FAbs(a) == IF IsNaN(a) THEN NaN ELSE Abs(a)
FAdd(a, b) ==
    IF IsFinite(a) /\ IsFinite(b) THEN Fit(a + b)
    ELSE IF IsNaN(a) \/ IsNaN(b) THEN NaN
    ELSE IF IsInf(a) THEN (IF b = -a THEN NaN ELSE a)
    ELSE b
FSub(a, b) == FAdd(a, FNeg(b))
FMul(a, b) ==
    IF IsFinite(a) /\ IsFinite(b)
    THEN Fit(Sgn(a) * Sgn(b) * ((Abs(a) * Abs(b)) \div Unit))
    ELSE IF IsNaN(a) \/ IsNaN(b) \/ a = 0 \/ b = 0 THEN NaN
    ELSE Sgn(a) * Sgn(b) * Infinity
FDiv(a, b) ==
    IF IsFinite(a) /\ IsFinite(b)
    THEN (IF b # 0 THEN Fit(Sgn(a) * Sgn(b) * ((Abs(a) * Unit) \div Abs(b)))
          ELSE IF a = 0 THEN NaN ELSE Sgn(a) * Infinity)
    ELSE IF IsNaN(a) \/ IsNaN(b) THEN NaN
    ELSE IF IsInf(a) THEN (IF IsInf(b) THEN NaN
                           ELSE IF b = 0 THEN a ELSE Sgn(a) * Sgn(b) * Infinity)
    ELSE 0
\* comparisons: false as soon as one side is NaN
FLt(a, b) == a < b /\ ~IsNaN(a) /\ ~IsNaN(b)
FGt(a, b) == a > b /\ ~IsNaN(a) /\ ~IsNaN(b)
FLe(a, b) == a <= b /\ ~IsNaN(a) /\ ~IsNaN(b)
FGe(a, b) == a >= b /\ ~IsNaN(a) /\ ~IsNaN(b)

RECURSIVE ISqrtBetween(_, _, _)
\* the largest r in lo .. hi with r * r <= n
ISqrtBetween(n, lo, hi) ==
    IF lo >= hi THEN lo
    ELSE LET mid == (lo + hi + 1) \div 2
         IN  IF mid * mid <= n THEN ISqrtBetween(n, mid, hi)
             ELSE ISqrtBetween(n, lo, mid - 1)
\* std::sqrt
FSqrt(a) ==
    IF IsNaN(a) \/ a < 0 THEN NaN
    ELSE IF IsInf(a) THEN Infinity
    ELSE ISqrtBetween(a * Unit, 0, Min2(a * Unit, 40000))

(***************************************************************************)
(* Vec3 and the helpers of library.hpp the intersection engine uses.       *)
(***************************************************************************)
Vec3(x, y, z) == [x |-> x, y |-> y, z |-> z]
Vec3of(value) == Vec3(value, value, value)
VAdd(v, o) == Vec3(FAdd(v.x, o.x), FAdd(v.y, o.y), FAdd(v.z, o.z))
VSub(v, o) == Vec3(FSub(v.x, o.x), FSub(v.y, o.y), FSub(v.z, o.z))
VMul(v, o) == Vec3(FMul(v.x, o.x), FMul(v.y, o.y), FMul(v.z, o.z))
VDiv(v, o) == Vec3(FDiv(v.x, o.x), FDiv(v.y, o.y), FDiv(v.z, o.z))
VScale(v, f) == Vec3(FMul(v.x, f), FMul(v.y, f), FMul(v.z, f))
VOver(v, f) == Vec3(FDiv(v.x, f), FDiv(v.y, f), FDiv(v.z, f))
VNeg(v) == Vec3(FNeg(v.x), FNeg(v.y), FNeg(v.z))
dot(v, o) == FAdd(FAdd(FMul(v.x, o.x), FMul(v.y, o.y)), FMul(v.z, o.z))
magnitude_squared(v) == dot(v, v)

\* the epsilon of almost_zero (8E-7f): the smallest positive grid value
Epsilon == 1
almost_zero(value) == FLt(-Epsilon, value) /\ FLt(value, Epsilon)
safe_sqrt(value) == IF FLe(value, 0) THEN 0 ELSE FSqrt(value)
normalize(value) ==
    LET squared == magnitude_squared(value)
    IN  IF almost_zero(squared) THEN Vec3of(0)
        ELSE VScale(value, FDiv(F(1), FSqrt(squared)))

Ray(origin, direction) == [origin |-> origin, direction |-> direction]

(***************************************************************************)
(* The primitive tests (library.cpp:39-129).  Each yields the returned     *)
(* distance and the value left in the normal output parameter.             *)
(***************************************************************************)
intersect_sphere(ray, center, radius, normal) ==
    LET offset == VSub(ray.origin, center)
        radius2 == FMul(radius, radius)
        mapped == FNeg(dot(offset, ray.direction))
        extend2 == FSub(FAdd(FMul(mapped, mapped), radius2), magnitude_squared(offset))
        extend == safe_sqrt(extend2)
        first == FSub(mapped, extend)
        distance == IF FLt(first, 0) THEN FAdd(mapped, extend) ELSE first
    IN  IF FLt(extend2, 0) THEN [distance |-> Infinity, normal |-> normal]
        ELSE IF FLt(distance, 0) THEN [distance |-> Infinity, normal |-> normal]
        ELSE [distance |-> distance,
              normal |-> normalize(VAdd(VScale(ray.direction, distance), offset))]

intersect_plane(ray, normal, offset) ==
    LET mapped == dot(ray.direction, normal)
        distance == FDiv(FAdd(dot(ray.origin, normal), offset), FNeg(mapped))
    IN  IF ~almost_zero(mapped) /\ FGe(distance, 0) THEN distance ELSE Infinity

\* the lambda prepare of intersect_box, for one axis
prepare(length_min, length_max, direction) ==
    [length_min |-> IF FLt(length_min, length_max) THEN length_max ELSE length_min,
     length_max |-> IF FLt(length_min, length_max) THEN length_min ELSE length_max,
     sign |-> IF FLt(direction, 0) THEN F(1) ELSE F(-1)]

\* the last lines of intersect_box with the two results swapped
BoxResultNearWhenInside(near, far, normal_near, normal_far, normal) ==
    IF FGe(far, near) /\ FGe(far, 0)
    THEN [distance |-> near, normal |-> normal_near]
    ELSE [distance |-> Infinity, normal |-> normal]

\* library.cpp:117-129
BoxResult(near, far, normal_near, normal_far, normal) ==
    IF FGe(far, near) /\ FGe(far, 0)
    THEN IF FGe(near, 0)
         THEN [distance |-> near, normal |-> normal_near]
         ELSE [distance |-> far, normal |-> normal_far]
    ELSE [distance |-> Infinity, normal |-> normal]

\* library.cpp:105-115, then the result
BoxAxisZ(near, far, normal_near, normal_far, pz, normal) ==
    BoxResult(IF FLt(near, pz.length_max) THEN pz.length_max ELSE near,
              IF FGt(far, pz.length_min) THEN pz.length_min ELSE far,
              IF FLt(near, pz.length_max) THEN Vec3(0, 0, pz.sign) ELSE normal_near,
              IF FGt(far, pz.length_min) THEN Vec3(0, 0, FNeg(pz.sign)) ELSE normal_far,
              normal)

\* library.cpp:93-103, then the z axis
BoxAxisY(near, far, normal_near, normal_far, py, pz, normal) ==
    BoxAxisZ(IF FLt(near, py.length_max) THEN py.length_max ELSE near,
             IF FGt(far, py.length_min) THEN py.length_min ELSE far,
             IF FLt(near, py.length_max) THEN Vec3(0, py.sign, 0) ELSE normal_near,
             IF FGt(far, py.length_min) THEN Vec3(0, FNeg(py.sign), 0) ELSE normal_far,
             pz, normal)

\* library.cpp:88-91, then the y axis
BoxAxisX(px, py, pz, normal) ==
    BoxAxisY(px.length_max, px.length_min,
             Vec3(px.sign, 0, 0), Vec3(FNeg(px.sign), 0, 0), py, pz, normal)

\* library.cpp:83-86, then the axes in turn
BoxPrepare(lengths_min, lengths_max, direction_r, normal) ==
    BoxAxisX(prepare(lengths_min.x, lengths_max.x, direction_r.x),
             prepare(lengths_min.y, lengths_max.y, direction_r.y),
             prepare(lengths_min.z, lengths_max.z, direction_r.z), normal)

\* library.cpp:74-75, then the rest
BoxLengths(ray, min, max, normal, direction_r) ==
    BoxPrepare(VMul(VSub(min, ray.origin), direction_r),
               VMul(VSub(max, ray.origin), direction_r), direction_r, normal)

intersect_box(ray, min, max, normal) ==
    BoxLengths(ray, min, max, normal, VDiv(Vec3of(F(1)), ray.direction))

(***************************************************************************)
(* Scene (library.hpp:32-60, library.cpp:33-37, 166-217).                  *)
(***************************************************************************)
\* a replacement on an equal distance too
CloserOrEqual(new_distance, distance) == FLe(new_distance, distance)

\* library.cpp:178, 192, 208
Closer(new_distance, distance) == FLt(new_distance, distance)

\* a distance that is left as the caller passed it
StartDistanceKept(prior) == prior

\* library.cpp:168
StartDistance(prior) == Infinity

Hit(distance, normal, material) ==
    [distance |-> distance, normal |-> normal, material |-> material]

Take(best, new_distance, new_normal, material) ==
    IF Closer(new_distance, best.distance)
    THEN Hit(new_distance, new_normal, material)
    ELSE best

\* the same for a test that yields the distance and the normal together
TakeTest(best, t, material) == Take(best, t.distance, t.normal, material)

RECURSIVE ScanSpheres(_, _, _, _)
\* library.cpp:170-184
ScanSpheres(ray, list, i, best) ==
    IF i > Len(list) THEN best
    ELSE ScanSpheres(ray, list, i + 1,
                     TakeTest(best, intersect_sphere(ray, list[i][1], list[i][2], Vec3of(0)),
                              list[i][3]))

RECURSIVE ScanPlanes(_, _, _, _)
\* library.cpp:186-198
ScanPlanes(ray, list, i, best) ==
    IF i > Len(list) THEN best
    ELSE ScanPlanes(ray, list, i + 1,
                    Take(best, intersect_plane(ray, list[i][1], list[i][2]),
                         list[i][1], list[i][3]))

RECURSIVE ScanBoxes(_, _, _, _)
\* library.cpp:200-214
ScanBoxes(ray, list, i, best) ==
    IF i > Len(list) THEN best
    ELSE ScanBoxes(ray, list, i + 1,
                   TakeTest(best, intersect_box(ray, list[i][1], list[i][2], Vec3of(0)),
                            list[i][3]))

\* library.cpp:216 and the output parameters as the loops left them
Outputs(b) ==
    [distance |-> b.distance, normal |-> b.normal, material |-> b.material,
     result |-> IsFinite(b.distance)]

\* Scene::intersect: the outputs and the returned flag
Scene_intersect(scene, ray, distance, normal, material) ==
    Outputs(ScanBoxes(ray, scene.boxes, 1,
              ScanPlanes(ray, scene.planes, 1,
                ScanSpheres(ray, scene.spheres, 1,
                  Hit(StartDistance(distance), normal, material)))))

\* worker ordinals i of the loop at library.cpp:230
Ordinals == 0 .. (Max2(MaxHardware, 1) - 1)
Rows == 0 .. (ImageHeight - 1)
Slots == 0 .. (ImageHeight * ImageWidth - 1)

VARIABLES
    \* ---- the render: main and parallel_for ----
    pcMain,         \* position of the main thread
    begin, end,     \* parallel_for's parameters (after the swap)
    workers,        \* number of workers parallel_for starts
    current,        \* std::atomic<uint32_t> current
    threads,        \* number of threads emplaced so far (the loop variable i)
    joined,         \* number of threads joined so far
    pc,             \* position of each worker thread
    index,          \* each worker's local index
    col,            \* each worker's x inside the row action
    thread_random,  \* thread-local storage slot -> engine or Null
    draws,          \* history: every random_float draw (thread, engine used)
    claimed,        \* history: row -> sequence of workers that were handed it
    colors,         \* history: buffer slot -> sequence of workers that wrote it
    \* ---- a scene and one intersection query ----
    scene,          \* Scene: the three vectors of tuples
    queried,        \* whether Scene::intersect has been called
    ray,            \* the query's ray
    prior,          \* what the caller's output variables held before the call
    distance, normal, material,     \* the caller's output variables
    result,         \* the returned flag
    \* ---- one path: render_sample's call of evaluate ----
    variant,        \* "main" (main.cpp) or "reference" (reference.cpp)
    ePc,            \* "call": the innermost evaluate is about to run; "done"
    calls,          \* nested (recursive) evaluate calls made so far
    depth,          \* reference.cpp: the depth argument of the innermost call
    direction,      \* ray.direction of the innermost call
    energy,         \* main.cpp: the energy argument of the innermost call;
                    \* reference.cpp (which carries none): the same product
    frames,         \* reference.cpp: the bounces whose return is pending
    hits,           \* bounces taken so far
    hitMaterial,    \* material of the last hit
    ending,         \* how the innermost call returned
    value,          \* what render_sample's call of evaluate returned
    \* ---- one pixel: render_pixel ----
    pPc,            \* "loop": in the sample loop; "done": returned
    sample_i,       \* the loop variable i
    samples,        \* what render_sample returned, sample by sample
    pixel_result,   \* the local result
    count,          \* reference.cpp: the local count
    pixel,          \* what render_pixel returned
    \* ---- a call of parallel_for with any bounds and any action ----
    arg_begin,      \* the argument begin as the caller passed it
    arg_end,        \* the argument end as the caller passed it
    invoked         \* index -> the workers that ran action(index), in order

renderVars == <<pcMain, begin, end, workers, current, threads, joined, pc,
                index, col, thread_random, draws, claimed, colors>>

sceneVars == <<scene, queried, ray, prior, distance, normal, material, result>>

evalVars == <<variant, ePc, calls, depth, direction, energy, frames, hits,
              hitMaterial, ending, value>>

pixelVars == <<pPc, sample_i, samples, pixel_result, count, pixel>>

forVars == <<arg_begin, arg_end, invoked>>

vars == <<renderVars, sceneVars, evalVars, pixelVars, forVars>>

(***************************************************************************)
(* The thread-local random engine (library.cpp:14-31).                     *)
(***************************************************************************)
\* a shared (not thread_local) engine pointer: every thread uses slot 0
TlsSlotShared(t) == 0

\* thread_local: each thread has its own thread_random
TlsSlot(t) == t

\* make_random_engine(seed) run by thread t; via records the call site
make_random_engine(tr, t, seed, via) ==
    [tr EXCEPT ![TlsSlot(t)] =
        <<[seed |-> seed, maker |-> t, via |-> via, users |-> {}]>>]

\* thread_random after random_float() run by thread t: the null check and the
\* lazily made seed-0 engine, then the distribution advancing the engine
random_float_engine(tr, t) ==
    LET made == IF tr[TlsSlot(t)] = Null
                THEN make_random_engine(tr, t, 0, "fallback")
                ELSE tr
    IN  [made EXCEPT ![TlsSlot(t)] = <<[@[1] EXCEPT !.users = @ \cup {t}]>>]

\* the record of one draw: who drew, and from which engine
DrawOf(tr, t) ==
    LET e == random_float_engine(tr, t)[TlsSlot(t)][1]
    IN  [thread |-> t, seed |-> e.seed, maker |-> e.maker, via |-> e.via]

(***************************************************************************)
(* parallel_for (library.cpp:219-248) called by main (main.cpp:94-110,     *)
(* reference.cpp:164-180).                                                 *)
(***************************************************************************)
\* a worker entry that forgets to seed its engine
EntrySeedSkipped(tr, i) == tr

\* every worker seeded alike
EntrySeedSame(tr, i) == make_random_engine(tr, i, 0, "entry")

\* library.cpp:234
EntrySeed(tr, i) == make_random_engine(tr, i, i, "entry")

\* a counter that is read but not advanced
FetchAddLost(c) == c

\* current++ on the atomic counter: the value stored back
FetchAdd(c) == (c + 1) % Modulus

\* a join that does not wait for the thread
JoinableAlways(w) == TRUE

\* thread.join() returns once the thread's entry has returned
Joinable(w) == pc[w] = "done"

\* library.cpp:224-225
WorkerCount(hw, b, e) == Min2(Max2(hw, 1), e - b)

RenderInit ==
    /\ pcMain = "call"
    /\ begin = 0
    /\ end = ImageHeight
    /\ arg_begin = 0
    /\ arg_end = ImageHeight
    /\ invoked = [r \in 0 .. (Modulus - 1) |-> <<>>]
    /\ workers = 0
    /\ current = 0
    /\ threads = 0
    /\ joined = 0
    /\ pc = [w \in Ordinals |-> "unborn"]
    /\ index = [w \in Ordinals |-> 0]
    /\ col = [w \in Ordinals |-> 0]
    /\ thread_random = [s \in Ordinals |-> Null]
    /\ draws = {}
    /\ claimed = [r \in 0 .. (Modulus - 1) |-> <<>>]
    /\ colors = [s \in Slots |-> <<>>]

\* library.cpp:221-228: the early return, the swap, the worker count, the counter
Enter ==
    /\ pcMain = "call"
    /\ \E hw \in 0 .. MaxHardware :
        LET b == Min2(begin, end)
            e == Max2(begin, end)
        IN  IF begin = end
            THEN /\ pcMain' = "returned"
                 /\ UNCHANGED <<begin, end, workers, current>>
            ELSE /\ begin' = b
                 /\ end' = e
                 /\ workers' = WorkerCount(hw, b, e)
                 /\ current' = b
                 /\ pcMain' = "spawn"
    /\ UNCHANGED <<threads, joined, pc, index, col, thread_random, draws,
                   claimed, colors, sceneVars, evalVars, pixelVars, forVars>>

\* library.cpp:230-245: threads.emplace_back(entry) for i = threads
Spawn ==
    /\ pcMain = "spawn"
    /\ threads < workers
    /\ pc' = [pc EXCEPT ![threads] = "entry"]
    /\ threads' = threads + 1
    /\ pcMain' = IF threads + 1 < workers THEN "spawn" ELSE "join"
    /\ UNCHANGED <<begin, end, workers, current, joined, index, col,
                   thread_random, draws, claimed, colors, sceneVars, evalVars, pixelVars, forVars>>

\* library.cpp:247: joins in emplacement order
Join ==
    /\ pcMain = "join"
    /\ joined < workers
    /\ Joinable(joined)
    /\ joined' = joined + 1
    /\ pcMain' = IF joined + 1 < workers THEN "join" ELSE "returned"
    /\ UNCHANGED <<begin, end, workers, current, threads, pc, index, col,
                   thread_random, draws, claimed, colors, sceneVars, evalVars, pixelVars, forVars>>

\* main.cpp:108: write_image reads the whole buffer
WriteImage ==
    /\ pcMain = "returned"
    /\ pcMain' = "exit"
    /\ UNCHANGED <<begin, end, workers, current, threads, joined, pc, index,
                   col, thread_random, draws, claimed, colors, sceneVars, evalVars, pixelVars, forVars>>

\* library.cpp:234: the first statement of a worker's entry
Entry(w) ==
    /\ pc[w] = "entry"
    /\ thread_random' = EntrySeed(thread_random, w)
    /\ pc' = [pc EXCEPT ![w] = "loop"]
    /\ UNCHANGED <<pcMain, begin, end, workers, current, threads, joined,
                   index, col, draws, claimed, colors, sceneVars, evalVars, pixelVars, forVars>>

\* library.cpp:238-239: index = current++, then the test against end
Fetch(w) ==
    /\ pc[w] = "loop"
    /\ index' = [index EXCEPT ![w] = current]
    /\ current' = FetchAdd(current)
    /\ IF current >= end
       THEN /\ pc' = [pc EXCEPT ![w] = "done"]
            /\ UNCHANGED <<claimed, col>>
       ELSE /\ pc' = [pc EXCEPT ![w] = "action"]
            /\ claimed' = [claimed EXCEPT ![current] = Append(@, w)]
            /\ col' = [col EXCEPT ![w] = 0]
    /\ UNCHANGED <<pcMain, begin, end, workers, threads, joined,
                   thread_random, draws, colors, sceneVars, evalVars, pixelVars, forVars>>

\* main.cpp:100-105: one iteration of the row action's loop over x:
\* render_pixel (whose samples draw random_float) and the store into colors
Pixel(w) ==
    /\ pc[w] = "action"
    /\ LET y == index[w]
           x == col[w]
           slot == y * ImageWidth + x
       IN  /\ draws' = draws \cup {DrawOf(thread_random, w)}
           /\ thread_random' = random_float_engine(thread_random, w)
           /\ colors' = IF slot \in Slots
                        THEN [colors EXCEPT ![slot] = Append(@, w)]
                        ELSE colors
           /\ IF x + 1 < ImageWidth
              THEN /\ col' = [col EXCEPT ![w] = x + 1]
                   /\ pc' = pc
              ELSE /\ col' = col
                   /\ pc' = [pc EXCEPT ![w] = "loop"]
    /\ UNCHANGED <<pcMain, begin, end, workers, current, threads, joined,
                   index, claimed, sceneVars, evalVars, pixelVars, forVars>>

(***************************************************************************)
(* A scene is built by insert_sphere, insert_plane and insert_box and then *)
(* queried once by Scene::intersect, as evaluate does with output          *)
(* variables it has not initialised.                                       *)
(***************************************************************************)
V(x, y, z) == Vec3(F(x), F(y), F(z))

SphereChoices ==
    { <<V(0, 0, 2), F(1), 0>>, <<V(0, 0, 2), F(1), 1>>, <<V(2, 0, 0), F(1), 2>> }
PlaneChoices ==
    { <<V(0, 0, 1), F(-1), 0>>, <<V(0, 1, 0), F(1), 1>> }
\* centre, size, material
BoxChoices ==
    { <<V(0, 0, 0), V(2, 2, 2), 2>>, <<V(0, 0, 2), V(2, 4, 2), 3>> }
Origins == { V(0, 0, z) : z \in (-MaxOrigin) .. MaxOrigin }
Directions == { V(x, y, z) : x, y \in (-1) .. 1, z \in (-MaxDirection) .. MaxDirection }
Rays == { Ray(o, d) : o \in Origins, d \in Directions }
\* values an uninitialised float, Vec3 and uint32_t may hold
Garbage ==
    { Hit(0, V(1, 0, 0), 7), Hit(NaN, Vec3of(0), 0) }

Primitives == Len(scene.spheres) + Len(scene.planes) + Len(scene.boxes)

EmptyScene == [spheres |-> <<>>, planes |-> <<>>, boxes |-> <<>>]

SceneIdle ==
    /\ scene = EmptyScene
    /\ queried = FALSE
    /\ ray = Ray(Vec3of(0), Vec3of(0))
    /\ prior = Hit(0, Vec3of(0), 0)
    /\ distance = 0
    /\ normal = Vec3of(0)
    /\ material = 0
    /\ result = FALSE

RenderIdle ==
    /\ pcMain = "exit"
    /\ arg_begin = 0
    /\ arg_end = 0
    /\ invoked = [r \in 0 .. (Modulus - 1) |-> <<>>]
    /\ begin = 0
    /\ end = 0
    /\ workers = 0
    /\ current = 0
    /\ threads = 0
    /\ joined = 0
    /\ pc = [w \in Ordinals |-> "unborn"]
    /\ index = [w \in Ordinals |-> 0]
    /\ col = [w \in Ordinals |-> 0]
    /\ thread_random = [s \in Ordinals |-> Null]
    /\ draws = {}
    /\ claimed = [r \in 0 .. (Modulus - 1) |-> <<>>]
    /\ colors = [s \in Slots |-> <<>>]

\* library.hpp:37-40
insert_sphere(center, radius, mat) ==
    /\ ~queried
    /\ Primitives < MaxPrimitives
    /\ scene' = [scene EXCEPT !.spheres = Append(@, <<center, radius, mat>>)]
    /\ UNCHANGED <<queried, ray, prior, distance, normal, material, result,
                   renderVars, evalVars, pixelVars, forVars>>

\* library.hpp:42-45
insert_plane(n, offset, mat) ==
    /\ ~queried
    /\ Primitives < MaxPrimitives
    /\ scene' = [scene EXCEPT !.planes = Append(@, <<n, offset, mat>>)]
    /\ UNCHANGED <<queried, ray, prior, distance, normal, material, result,
                   renderVars, evalVars, pixelVars, forVars>>

\* library.cpp:33-37
insert_box(center, size, mat) ==
    /\ ~queried
    /\ Primitives < MaxPrimitives
    /\ LET extend == VOver(size, F(2))
       IN  scene' = [scene EXCEPT !.boxes =
                        Append(@, <<VSub(center, extend), VAdd(center, extend), mat>>)]
    /\ UNCHANGED <<queried, ray, prior, distance, normal, material, result,
                   renderVars, evalVars, pixelVars, forVars>>

\* a call of Scene::intersect (library.cpp:166-217) from evaluate
\* (reference.cpp:120-124)
Intersect ==
    /\ ~queried
    /\ \E r \in Rays, g \in Garbage :
        \E out \in {Scene_intersect(scene, r, g.distance, g.normal, g.material)} :
            /\ ray' = r
            /\ prior' = g
            /\ distance' = out.distance
            /\ normal' = out.normal
            /\ material' = out.material
            /\ result' = out.result
    /\ queried' = TRUE
    /\ UNCHANGED <<scene, renderVars, evalVars, pixelVars, forVars>>

\* no pixel is being sampled
PixelIdle ==
    /\ pPc = "done"
    /\ sample_i = 0
    /\ samples = <<>>
    /\ pixel_result = Vec3of(0)
    /\ count = 0
    /\ pixel = Vec3of(0)

\* no path is being traced
EvalIdle ==
    /\ variant = "none"
    /\ ePc = "done"
    /\ calls = 0
    /\ depth = 0
    /\ direction = Vec3of(0)
    /\ energy = Vec3of(0)
    /\ frames = <<>>
    /\ hits = 0
    /\ hitMaterial = 0
    /\ ending = "none"
    /\ value = Vec3of(0)

SceneInit == RenderIdle /\ SceneIdle /\ EvalIdle /\ PixelIdle

SceneNext ==
    \/ \E s \in SphereChoices : insert_sphere(s[1], s[2], s[3])
    \/ \E p \in PlaneChoices : insert_plane(p[1], p[2], p[3])
    \/ \E b \in BoxChoices : insert_box(b[1], b[2], b[3])
    \/ Intersect

SceneSpec == SceneInit /\ [][SceneNext]_vars

(***************************************************************************)
(* The path integrators: evaluate of main.cpp (lines 23-78) and of         *)
(* reference.cpp (lines 27-143).  What Scene::intersect and the sampled    *)
(* incident direction yield at a bounce is an input: hit or miss, the      *)
(* material, |dot(normal, incident)| and the incident direction.           *)
(***************************************************************************)
\* the float literal num/den
Lit(num, den) == (num * Unit) \div den

\* library.hpp:14
Pi == Lit(314159, 100000)

\* reference.cpp:142
MaxDepth == 128

\* library.hpp:209
get_luminance(color) ==
    dot(color, Vec3(Lit(212671, 1000000), Lit(715160, 1000000), Lit(72169, 1000000)))

\* the materials of make_scene: main.cpp:13-16
MainMaterials == {0, 1}
\* reference.cpp:16-20
ReferenceMaterials == {0, 1, 2, 3}
\* values of |dot(normal, incident)|
Cosines == {0, Lit(1, 100), Lit(1, 2), F(1)}
\* unit directions
UnitDirections == {V(0, 0, 1), Vec3(Lit(6, 10), 0, Lit(8, 10))}

\* main.cpp:48-51 and reference.cpp:111-114
escape(d) == VMul(d, d)

\* reference.cpp:100-109
emit(m) == IF m = 3 THEN Vec3of(F(1)) ELSE Vec3of(0)

\* main.cpp:23-46, given |dot(incident, normal)|
bsdf_main(m, cosine) ==
    CASE m = 0 -> VScale(Vec3of(F(1)), Lit(5, 10))
      [] m = 1 -> VScale(Vec3of(FDiv(F(1), cosine)), Lit(8, 10))
      [] OTHER -> Vec3of(0)

\* reference.cpp:27-98, given abs_dot(incident, normal)
bsdf_reference(m, cosine) ==
    CASE m = 0 ->
            LET uniform_hemisphere_pdf == FDiv(FDiv(F(1), Pi), F(2))
                evaluated == FDiv(F(1), Pi)
            IN  IF almost_zero(uniform_hemisphere_pdf) THEN Vec3of(0)
                ELSE VScale(Vec3of(FDiv(evaluated, uniform_hemisphere_pdf)), Lit(5, 10))
      [] m = 1 ->
            IF almost_zero(cosine) THEN VScale(Vec3of(0), Lit(8, 10))
            ELSE VScale(Vec3of(FDiv(F(1), cosine)), Lit(8, 10))
      [] m = 2 ->
            IF almost_zero(cosine) THEN VScale(Vec3of(0), Lit(9, 10))
            ELSE VScale(Vec3of(FDiv(F(1), cosine)), Lit(9, 10))
      [] OTHER -> Vec3of(0)

\* reference.cpp:127-133: a material whose bsdf sets no incident direction
\* leaves incident at Vec3(), and abs_dot(normal, incident) is then 0
IncidentOf(m, sampled) == IF m \in {0, 1, 2} THEN sampled ELSE Vec3of(0)

IncidentCosine(m, cosine) == IF m \in {0, 1, 2} THEN cosine ELSE 0

\* main.cpp:68
BelowThreshold(e) == FLt(get_luminance(e), Lit(1, 100))

\* main.cpp:67
NewEnergy(e, scatter, cosine) == VScale(VMul(e, scatter), cosine)

\* reference.cpp:134: depth - 1
DepthNext(d) == d - 1

\* reference.cpp:134: what a bounce returns, given what its nested call returned
Returned(frame, inner) ==
    VAdd(frame.emission, VScale(VMul(frame.scatter, inner), frame.lambertian))

RECURSIVE Unwind(_, _, _, _)
\* reference.cpp:134, for the pending bounces hi, hi - 1, .. lo in that
\* order: the innermost pending call returns first.  The value of the upper
\* half is computed (bound by the set constructor) before the lower half
\* uses it.
Unwind(fs, lo, hi, inner) ==
    IF lo > hi THEN inner
    ELSE IF lo = hi THEN Returned(fs[lo], inner)
    ELSE LET mid == (lo + hi) \div 2
         IN  CHOOSE r \in {Unwind(fs, lo, mid, upper) :
                             upper \in {Unwind(fs, mid + 1, hi, inner)}} : TRUE

\* render_sample: main.cpp:72-78 calls evaluate(ray, Color(1.0f)),
\* reference.cpp:137-143 calls evaluate(ray, 128)
EvalStart ==
    /\ variant \in {"main", "reference"}
    /\ ePc = "call"
    /\ calls = 0
    /\ depth = IF variant = "reference" THEN MaxDepth ELSE 0
    /\ direction \in UnitDirections
    /\ energy = Vec3of(F(1))
    /\ frames = <<>>
    /\ hits = 0
    /\ hitMaterial = 0
    /\ ending = "none"
    /\ value = Vec3of(0)

\* main.cpp:59: no intersection
MainMiss ==
    /\ variant = "main" /\ ePc = "call"
    /\ value' = VMul(energy, escape(direction))
    /\ ending' = "escaped"
    /\ ePc' = "done"
    /\ UNCHANGED <<variant, calls, depth, direction, energy, frames, hits,
                   hitMaterial, renderVars, sceneVars, pixelVars, forVars>>

\* main.cpp:61-68: a hit after which the luminance test returns Color(0.0f)
MainPrune ==
    /\ variant = "main" /\ ePc = "call"
    /\ \E m \in MainMaterials, cosine \in Cosines :
        LET new == NewEnergy(energy, bsdf_main(m, cosine), cosine)
        IN  /\ BelowThreshold(new)
            /\ energy' = new
            /\ hitMaterial' = m
    /\ hits' = hits + 1
    /\ value' = Vec3of(0)
    /\ ending' = "pruned"
    /\ ePc' = "done"
    /\ UNCHANGED <<variant, calls, depth, direction, frames, renderVars, sceneVars, pixelVars, forVars>>

\* main.cpp:61-69: a hit after which evaluate calls itself
MainBounce ==
    /\ variant = "main" /\ ePc = "call"
    /\ calls < CallCap
    /\ \E m \in MainMaterials, cosine \in Cosines, incident \in UnitDirections :
        LET new == NewEnergy(energy, bsdf_main(m, cosine), cosine)
        IN  /\ ~BelowThreshold(new)
            /\ energy' = new
            /\ hitMaterial' = m
            /\ direction' = incident
    /\ hits' = hits + 1
    /\ calls' = calls + 1
    /\ UNCHANGED <<variant, ePc, depth, frames, ending, value, renderVars, sceneVars, pixelVars, forVars>>

\* reference.cpp:118: depth == 0, and every pending bounce returns
ReferenceDepthZero ==
    /\ variant = "reference" /\ ePc = "call"
    /\ depth = 0
    /\ value' = Unwind(frames, 1, Len(frames), escape(direction))
    /\ ending' = "depth"
    /\ ePc' = "done"
    /\ UNCHANGED <<variant, calls, depth, direction, energy, frames, hits,
                   hitMaterial, renderVars, sceneVars, pixelVars, forVars>>

\* reference.cpp:124: no intersection, and every pending bounce returns
ReferenceMiss ==
    /\ variant = "reference" /\ ePc = "call"
    /\ depth # 0
    /\ value' = Unwind(frames, 1, Len(frames), escape(direction))
    /\ ending' = "escaped"
    /\ ePc' = "done"
    /\ UNCHANGED <<variant, calls, depth, direction, energy, frames, hits,
                   hitMaterial, renderVars, sceneVars, pixelVars, forVars>>

\* reference.cpp:126-134: a hit; evaluate calls itself with depth - 1
ReferenceBounce ==
    /\ variant = "reference" /\ ePc = "call"
    /\ depth # 0
    /\ \E m \in ReferenceMaterials, c \in Cosines, incident \in UnitDirections :
        LET lambertian == IncidentCosine(m, c)
            scatter == bsdf_reference(m, lambertian)
            frame == [material |-> m, emission |-> emit(m), scatter |-> scatter,
                      lambertian |-> lambertian,
                      incident |-> IncidentOf(m, incident)]
        IN  /\ Len(frames) >= FreeBounces /\ frames # <<>> => frame = frames[Len(frames)]
            /\ frames' = Append(frames, frame)
            /\ energy' = NewEnergy(energy, scatter, lambertian)
            /\ hitMaterial' = m
            /\ direction' = IncidentOf(m, incident)
    /\ hits' = hits + 1
    /\ calls' = calls + 1
    /\ depth' = DepthNext(depth)
    /\ UNCHANGED <<variant, ePc, ending, value, renderVars, sceneVars, pixelVars, forVars>>

EvalInit == RenderIdle /\ SceneIdle /\ EvalStart /\ PixelIdle

EvalNext ==
    \/ MainMiss
    \/ MainPrune
    \/ MainBounce
    \/ ReferenceDepthZero
    \/ ReferenceMiss
    \/ ReferenceBounce

EvalSpec == EvalInit /\ [][EvalNext]_vars

(***************************************************************************)
(* render_pixel of main.cpp (lines 80-92) and of reference.cpp (lines      *)
(* 145-162).  What render_sample returns for a sample is an input.         *)
(***************************************************************************)
\* colours render_sample may return
SampleValues ==
    { Vec3of(0), Vec3(F(1), 0, Lit(1, 2)), Vec3(Lit(1, 4), Lit(1, 4), F(2)),
      Vec3(NaN, 0, 0), Vec3(0, Infinity, 0) }

\* library.hpp:219
is_invalid(color) == ~IsFinite(FAdd(FAdd(color.x, color.y), color.z))

\* the pixel of main() being rendered by the program of the given variant
PixelStart ==
    /\ variant \in {"main", "reference"}
    /\ ePc = "done" /\ calls = 0 /\ depth = 0 /\ direction = Vec3of(0)
    /\ energy = Vec3of(0) /\ frames = <<>> /\ hits = 0 /\ hitMaterial = 0
    /\ ending = "none" /\ value = Vec3of(0)
    /\ pPc = "loop"
    /\ sample_i = 0
    /\ samples = <<>>
    /\ pixel_result = Vec3of(0)
    /\ count = 0
    /\ pixel = Vec3of(0)

\* main.cpp:84-89: one turn of the loop
MainSample ==
    /\ variant = "main" /\ pPc = "loop"
    /\ sample_i < SamplesPerPixel
    /\ \E sample \in SampleValues :
        /\ samples' = Append(samples, sample)
        /\ pixel_result' = VAdd(pixel_result, sample)
    /\ sample_i' = sample_i + 1
    /\ UNCHANGED <<pPc, count, pixel, renderVars, sceneVars, evalVars, forVars>>

\* main.cpp:91
MainReturn ==
    /\ variant = "main" /\ pPc = "loop"
    /\ ~(sample_i < SamplesPerPixel)
    /\ pixel' = VOver(pixel_result, F(SamplesPerPixel))
    /\ pPc' = "done"
    /\ UNCHANGED <<sample_i, samples, pixel_result, count, renderVars, sceneVars, evalVars, forVars>>

\* reference.cpp:150-159: one turn of the loop
ReferenceSample ==
    /\ variant = "reference" /\ pPc = "loop"
    /\ sample_i < SamplesPerPixel
    /\ \E sample \in SampleValues :
        /\ samples' = Append(samples, sample)
        /\ IF is_invalid(sample)
           THEN UNCHANGED <<pixel_result, count>>
           ELSE /\ pixel_result' = VAdd(pixel_result, sample)
                /\ count' = count + 1
    /\ sample_i' = sample_i + 1
    /\ UNCHANGED <<pPc, pixel, renderVars, sceneVars, evalVars, forVars>>

\* reference.cpp:161
ReferenceReturn ==
    /\ variant = "reference" /\ pPc = "loop"
    /\ ~(sample_i < SamplesPerPixel)
    /\ pixel' = VOver(pixel_result, F(count))
    /\ pPc' = "done"
    /\ UNCHANGED <<sample_i, samples, pixel_result, count, renderVars, sceneVars, evalVars, forVars>>

PixelInit == RenderIdle /\ SceneIdle /\ PixelStart

PixelNext ==
    \/ MainSample
    \/ MainReturn
    \/ ReferenceSample
    \/ ReferenceReturn

PixelSpec == PixelInit /\ [][PixelNext]_vars

(***************************************************************************)
(* parallel_for (library.cpp:219-248) called with any bounds and with an   *)
(* action that only records the index it is given.                         *)
(***************************************************************************)
\* values of the uint32_t arguments: the least and the greatest few
ArgValues == (0 .. MaxArg) \cup ((Modulus - 1 - MaxArg) .. (Modulus - 1))

ForInit ==
    /\ SceneIdle /\ EvalIdle /\ PixelIdle
    /\ pcMain = "call"
    /\ begin \in ArgValues
    /\ end \in ArgValues
    /\ Max2(begin, end) - Min2(begin, end) <= MaxArg
    /\ arg_begin = begin
    /\ arg_end = end
    /\ invoked = [r \in 0 .. (Modulus - 1) |-> <<>>]
    /\ workers = 0
    /\ current = 0
    /\ threads = 0
    /\ joined = 0
    /\ pc = [w \in Ordinals |-> "unborn"]
    /\ index = [w \in Ordinals |-> 0]
    /\ col = [w \in Ordinals |-> 0]
    /\ thread_random = [s \in Ordinals |-> Null]
    /\ draws = {}
    /\ claimed = [r \in 0 .. (Modulus - 1) |-> <<>>]
    /\ colors = [s \in Slots |-> <<>>]

\* library.cpp:240: action(index)
Invoke(w) ==
    /\ pc[w] = "action"
    /\ invoked' = [invoked EXCEPT ![index[w]] = Append(@, w)]
    /\ pc' = [pc EXCEPT ![w] = "loop"]
    /\ UNCHANGED <<pcMain, begin, end, workers, current, threads, joined, index,
                   col, thread_random, draws, claimed, colors, arg_begin, arg_end,
                   sceneVars, evalVars, pixelVars>>

ForNext ==
    \/ Enter
    \/ Spawn
    \/ Join
    \/ \E w \in Ordinals : Entry(w)
    \/ \E w \in Ordinals : Fetch(w)
    \/ \E w \in Ordinals : Invoke(w)

ForSpec == ForInit /\ [][ForNext]_vars

Worker(w) == Entry(w) \/ Fetch(w) \/ Pixel(w)

Main == Enter \/ Spawn \/ Join \/ WriteImage

Init == RenderInit /\ SceneIdle /\ EvalIdle /\ PixelIdle

Next ==
    \/ Enter
    \/ Spawn
    \/ Join
    \/ WriteImage
    \/ \E w \in Ordinals : Entry(w)
    \/ \E w \in Ordinals : Fetch(w)
    \/ \E w \in Ordinals : Pixel(w)

Spec == Init /\ [][Next]_vars

\* every started thread is scheduled again and again, and so is main
FairSpec ==
    /\ Spec
    /\ WF_vars(Main)
    /\ \A w \in Ordinals : WF_vars(Worker(w))

(***************************************************************************)
(* The render: claims C1, C2, C3, C9.                                      *)
(***************************************************************************)
Started == 0 .. (threads - 1)
Running(w) == pc[w] \in {"entry", "loop", "action"}
AllExited == pcMain \in {"join", "returned", "exit"} /\ \A w \in Started : pc[w] = "done"
Engine(w) == thread_random[TlsSlot(w)][1]
HasEngine(w) == thread_random[TlsSlot(w)] # Null

\* C1: during a render every row of [0, ImageHeight) is handed to at most one
\* worker, no index outside the range is handed out, a colour-buffer slot is
\* only written by the worker that was handed its row and never twice, and
\* once every worker has left its loop each row has been handed out exactly
\* once and each slot written exactly once.
C1_EachRowOnce ==
    /\ \A r \in DOMAIN claimed :
        /\ Len(claimed[r]) <= 1
        /\ claimed[r] # <<>> => r \in Rows
    /\ \A s \in Slots :
        /\ Len(colors[s]) <= 1
        /\ colors[s] # <<>> => claimed[s \div ImageWidth] = colors[s]
    /\ AllExited =>
        /\ \A r \in Rows : Len(claimed[r]) = 1
        /\ \A s \in Slots : Len(colors[s]) = 1

\* C1 witness: a finished render in which two workers each processed a row
C1_Witness ==
    /\ pcMain = "exit"
    /\ \E r1, r2 \in Rows :
        /\ claimed[r1] # <<>> /\ claimed[r2] # <<>>
        /\ claimed[r1] # claimed[r2]
        /\ colors[r1 * ImageWidth] = claimed[r1]
        /\ colors[r2 * ImageWidth] = claimed[r2]

\* C2: parallel_for is fork-join: every worker eventually leaves its loop and
\* parallel_for returns, and whenever it has returned (so when write_image
\* runs) no worker is running or unstarted and the action has completed for
\* every index of the range.
C2_ForkJoin ==
    /\ <>(pcMain = "exit")
    /\ [](pcMain \in {"returned", "exit"} =>
            /\ threads = workers
            /\ \A w \in Ordinals : ~Running(w)
            /\ \A w \in Started : pc[w] = "done" /\ index[w] >= end
            /\ \A s \in Slots : colors[s] # <<>>)

\* C2 witness: parallel_for has returned from a render with several workers
C2_Witness ==
    /\ pcMain = "exit"
    /\ workers >= 2
    /\ \A w \in Started : pc[w] = "done"
    /\ \A s \in Slots : colors[s] # <<>>

\* C3: a worker that has reached its loop holds an engine of its own, made by
\* its entry with its ordinal as the seed; every draw of an action comes from
\* the drawing worker's entry-made engine (never the seed-0 fallback), and no
\* engine is used by a thread other than its maker.
C3_OwnSeededEngine ==
    /\ \A w \in Ordinals : pc[w] \in {"loop", "action", "done"} =>
        /\ HasEngine(w)
        /\ Engine(w).seed = w
        /\ Engine(w).maker = w
        /\ Engine(w).via = "entry"
    /\ \A d \in draws :
        /\ d.maker = d.thread
        /\ d.seed = d.thread
        /\ d.via = "entry"
    /\ \A s \in DOMAIN thread_random : thread_random[s] # Null =>
        thread_random[s][1].users \subseteq {thread_random[s][1].maker}

\* C3 witness: two workers have both drawn random numbers inside actions
C3_Witness ==
    \E d1, d2 \in draws : d1.thread # d2.thread /\ d1.seed # d2.seed

\* C9: which worker gets a row is decided at run time: whenever several
\* workers stand at the loop head with a row left, each of them can be the
\* one that takes that row; what is fixed is the seed of a worker ordinal
\* (its ordinal), so different workers hold differently seeded engines.
C9_DynamicAssignment ==
    /\ \A w \in Ordinals : pc[w] = "loop" /\ current < end =>
        ENABLED (Fetch(w) /\ claimed'[current] = <<w>>)
    /\ \A w \in Ordinals : pc[w] \in {"loop", "action", "done"} =>
        HasEngine(w) /\ Engine(w).seed = w
    /\ \A v, w \in Ordinals :
        (v # w /\ pc[v] \in {"loop", "action", "done"}
               /\ pc[w] \in {"loop", "action", "done"}) =>
            Engine(v).seed # Engine(w).seed

\* C9 witness: a row that worker 1 processed although worker 0 stood at the
\* loop head, free to take it, in the same run
C9_Witness ==
    \E r \in Rows, v, w \in Ordinals :
        /\ v # w
        /\ pc[v] = "loop" /\ pc[w] = "loop"
        /\ current = r /\ r < end
        /\ r > 0 /\ claimed[r - 1] = <<w>>

(***************************************************************************)
(* The intersection engine: claims C4, C5, C10.                            *)
(***************************************************************************)
\* what each primitive's own test yields for the query's ray, in the order
\* spheres, planes, boxes
SphereTests ==
    [i \in 1 .. Len(scene.spheres) |->
        LET t == intersect_sphere(ray, scene.spheres[i][1], scene.spheres[i][2], Vec3of(0))
        IN  Hit(t.distance, t.normal, scene.spheres[i][3])]
PlaneTests ==
    [i \in 1 .. Len(scene.planes) |->
        Hit(intersect_plane(ray, scene.planes[i][1], scene.planes[i][2]),
            scene.planes[i][1], scene.planes[i][3])]
BoxTests ==
    [i \in 1 .. Len(scene.boxes) |->
        LET t == intersect_box(ray, scene.boxes[i][1], scene.boxes[i][2], Vec3of(0))
        IN  Hit(t.distance, t.normal, scene.boxes[i][3])]
Tests == SphereTests \o PlaneTests \o BoxTests
FiniteIn(T) == { i \in DOMAIN T : IsFinite(T[i].distance) }
\* the least finite distance of T
LeastIn(T) ==
    CHOOSE d \in { T[i].distance : i \in FiniteIn(T) } :
        \A j \in FiniteIn(T) : d <= T[j].distance
\* the first index of T that attains it
FirstClosest(T) ==
    LET d == LeastIn(T)
    IN  CHOOSE i \in FiniteIn(T) :
            /\ T[i].distance = d
            /\ \A j \in FiniteIn(T) : T[j].distance = d => i <= j

\* C4: when some primitive's test yields a finite distance, Scene::intersect
\* returns true with the least of those distances and with the normal and
\* material of the first primitive, in the order spheres, planes, boxes, that
\* attains it.
C4_ClosestHitFirstWins ==
    queried =>
        LET T == Tests
        IN  FiniteIn(T) # {} =>
                LET i == FirstClosest(T)
                IN  /\ result = TRUE
                    /\ distance = LeastIn(T)
                    /\ normal = T[i].normal
                    /\ material = T[i].material

\* C4 witness: two primitives of different materials tie for the closest
\* hit and the outputs are those of the one tested first
C4_Witness ==
    /\ queried
    /\ LET T == Tests
       IN  /\ FiniteIn(T) # {}
           /\ LET i == FirstClosest(T)
              IN  /\ \E j \in FiniteIn(T) :
                      /\ i < j
                      /\ T[j].distance = T[i].distance
                      /\ T[j].material # T[i].material
                      /\ T[j].normal # T[i].normal
                  /\ material = T[i].material
                  /\ normal = T[i].normal

\* C5: when no primitive's test yields a finite distance (so in the empty
\* scene), Scene::intersect returns false and the distance output is
\* positive infinity, whatever it held before the call.
C5_MissLeavesInfinity ==
    (queried /\ FiniteIn(Tests) = {}) => (result = FALSE /\ distance = Infinity)

\* C5 witness: a query of the empty scene whose distance output held a
\* finite value before the call
C5_Witness ==
    /\ queried
    /\ scene = EmptyScene
    /\ IsFinite(prior.distance)
    /\ result = FALSE
    /\ distance = Infinity

Axes == {"x", "y", "z"}
NonZeroDirection == \A a \in Axes : ray.direction[a] # 0
ProperBox(b) == \A a \in Axes : b[1][a] < b[2][a]
\* the two slab distances of axis a, as the floats the code computes
SlabLow(b, a) == FMul(FSub(b[1][a], ray.origin[a]), FDiv(F(1), ray.direction[a]))
SlabHigh(b, a) == FMul(FSub(b[2][a], ray.origin[a]), FDiv(F(1), ray.direction[a]))
EntryAt(b, a) == Min2(SlabLow(b, a), SlabHigh(b, a))
ExitAt(b, a) == Max2(SlabLow(b, a), SlabHigh(b, a))
NearOf(b) == CHOOSE n \in { EntryAt(b, a) : a \in Axes } : \A a \in Axes : EntryAt(b, a) <= n
FarOf(b) == CHOOSE f \in { ExitAt(b, a) : a \in Axes } : \A a \in Axes : f <= ExitAt(b, a)
\* the axis-aligned unit vector along axis a with sign sg
AxisNormal(a, sg) == [c \in Axes |-> IF c = a THEN F(sg) ELSE 0]
BoxTest(b) == intersect_box(ray, b[1], b[2], Vec3of(0))
Boxes == { scene.boxes[i] : i \in 1 .. Len(scene.boxes) }

\* C10: for a box with min < max on every axis and a ray whose direction has
\* no zero component, intersect_box reports a miss exactly when far < near or
\* far < 0; with near >= 0 it returns near and the normal of an axis that
\* produced near, facing against the ray; with near < 0 <= far (the origin
\* inside the box) it returns far and the normal of an axis that produced far,
\* whose sign is that of the ray direction on that axis.
C10_BoxNearFar ==
    (queried /\ NonZeroDirection) =>
        \A b \in Boxes : ProperBox(b) =>
            LET near == NearOf(b)
                far == FarOf(b)
                t == BoxTest(b)
            IN  /\ (t.distance = Infinity) <=> (far < near \/ far < 0)
                /\ (far >= near /\ far >= 0 /\ near >= 0) =>
                    /\ t.distance = near
                    /\ \E a \in Axes :
                        /\ EntryAt(b, a) = near
                        /\ t.normal = AxisNormal(a, -Sgn(ray.direction[a]))
                /\ (far >= near /\ near < 0 /\ far >= 0) =>
                    /\ t.distance = far
                    /\ \E a \in Axes :
                        /\ ExitAt(b, a) = far
                        /\ t.normal = AxisNormal(a, Sgn(ray.direction[a]))

\* C10 witness: a ray that starts strictly inside a box and leaves it through
\* a face whose exit distance is smaller than that of the x faces has been
\* answered with the far distance and that face's outward normal
C10_Witness ==
    /\ queried
    /\ NonZeroDirection
    /\ \E b \in Boxes :
        /\ ProperBox(b)
        /\ \A a \in Axes : b[1][a] < ray.origin[a] /\ ray.origin[a] < b[2][a]
        /\ NearOf(b) < 0 /\ FarOf(b) > 0
        /\ FarOf(b) < ExitAt(b, "x")
        /\ BoxTest(b).distance = FarOf(b)
        /\ BoxTest(b).normal # AxisNormal("x", Sgn(ray.direction.x))
        /\ distance = FarOf(b)
        /\ normal = BoxTest(b).normal

(***************************************************************************)
(* Claims about evaluate (EvalSpec).                                       *)
(***************************************************************************)
\* C6: along any path the number of nested evaluate calls never exceeds the
\* configured bound of 128, whatever the scene returns at each intersection
\* and however the throughput develops.
C6_DepthBounded == calls <= MaxDepth

\* reference.cpp's evaluate alone: its nested calls and its depth argument
\* always add up to 128
ReferenceDepthBounded ==
    variant = "reference" =>
        /\ calls + depth = MaxDepth
        /\ Len(frames) = calls
        /\ ending = "depth" => calls = MaxDepth

\* the emission accumulated along the path, with no background term
AccumulatedEmission == Unwind(frames, 1, Len(frames), Vec3of(0))

\* C8: on a hit after which the luminance of the new throughput is below
\* 0.01 the path ends at this bounce, no continuation is traced, and the
\* path's result is the emission accumulated so far with no background term.
C8_EarlyOutReturnsEmission ==
    (hits > 0 /\ BelowThreshold(energy)) =>
        /\ ePc = "done"
        /\ ending = "pruned"
        /\ value = AccumulatedEmission

\* main.cpp's evaluate alone: the early-out ends the path with the zero colour
MainEarlyOut ==
    variant = "main" =>
        /\ (hits > 0 /\ BelowThreshold(energy)) =>
                (ePc = "done" /\ ending = "pruned" /\ value = Vec3of(0))
        /\ ending = "pruned" => BelowThreshold(energy)

(***************************************************************************)
(* Claims about render_pixel (PixelSpec).                                  *)
(***************************************************************************)
\* the claim's notion of an invalid sample: some channel is not finite
AnyChannelNonFinite(color) ==
    ~IsFinite(color.x) \/ ~IsFinite(color.y) \/ ~IsFinite(color.z)

RECURSIVE SumOfValid(_, _)
SumOfValid(ss, n) ==
    IF n = 0 THEN Vec3of(0)
    ELSE IF AnyChannelNonFinite(ss[n]) THEN SumOfValid(ss, n - 1)
    ELSE VAdd(SumOfValid(ss, n - 1), ss[n])

RECURSIVE CountOfValid(_, _)
CountOfValid(ss, n) ==
    IF n = 0 THEN 0
    ELSE CountOfValid(ss, n - 1) + (IF AnyChannelNonFinite(ss[n]) THEN 0 ELSE 1)

\* C7: render_pixel leaves every invalid sample (some channel non-finite) out
\* of the sum and of the count, returns the sum of the valid samples divided
\* by their number, and returns the zero colour when every sample is invalid.
C7_InvalidSamplesFiltered ==
    (variant \in {"main", "reference"} /\ pPc = "done" /\ sample_i = SamplesPerPixel) =>
        LET n == CountOfValid(samples, Len(samples))
        IN  pixel = IF n = 0 THEN Vec3of(0)
                    ELSE VOver(SumOfValid(samples, Len(samples)), F(n))

\* reference.cpp's render_pixel alone: with at least one valid sample the
\* pixel is the mean of the valid samples
ReferenceMeanOfValid ==
    (variant = "reference" /\ pPc = "done" /\ count > 0) =>
        /\ count = CountOfValid(samples, Len(samples))
        /\ pixel = VOver(SumOfValid(samples, Len(samples)), F(count))

(***************************************************************************)
(* Claims about parallel_for with any bounds (ForSpec).                    *)
(***************************************************************************)
\* the range the caller asked for
RangeLow == Min2(arg_begin, arg_end)
RangeHigh == Max2(arg_begin, arg_end)
InRange(r) == RangeLow <= r /\ r < RangeHigh

\* C11: parallel_for runs the action for exactly the indices from the lesser
\* bound (inclusive) to the greater bound (exclusive), each once; with equal
\* bounds it runs nothing and starts no worker; and it starts at least one
\* worker and never more than there are indices.
C11_ExactRangeOnce ==
    /\ \A r \in 0 .. (Modulus - 1) :
        /\ Len(invoked[r]) <= 1
        /\ invoked[r] # <<>> => InRange(r)
    /\ pcMain = "returned" =>
        /\ \A r \in 0 .. (Modulus - 1) : InRange(r) => Len(invoked[r]) = 1
        /\ arg_begin = arg_end => threads = 0
        /\ arg_begin # arg_end =>
                (1 <= threads /\ threads <= RangeHigh - RangeLow)

\* C12: for every begin < end, also with end near the greatest uint32_t, the
\* claim counter never wraps around into the range: the action is never
\* invoked with an index outside [begin, end) and no index is invoked twice.
C12_CounterNeverWraps ==
    arg_begin < arg_end =>
        \A w \in Ordinals :
            pc[w] = "action" =>
                /\ arg_begin <= index[w] /\ index[w] < arg_end
                /\ invoked[index[w]] = <<>>

\* unless the counter passes the greatest uint32_t with a worker still in its
\* loop, the range is run exactly once and the worker count is within bounds
NoWrapExactRangeOnce ==
    (RangeHigh + MaxHardware < Modulus) => C11_ExactRangeOnce

=============================================================================
